---- MODULE Spec2Model ----
(***************************************************************************)
(* State-machine model of streamlit_app.py: one top-to-bottom run of the   *)
(* script (inputs, catalog search, scene and band selection, read_band,    *)
(* normalize/display, GeoTIFF export).  Coordinates are integers in a      *)
(* common unit; a raster's pixel data is carried by one sample value per   *)
(* plane together with the asset and window it was read from.              *)
(***************************************************************************)
EXTENDS Integers, Sequences, FiniteSets, TLC

(* ------------------------------ bounds --------------------------------- *)
MaxBuffer == 2
MaxCoord == 3
MaxItems == 2
Spread == 2

(* ------------------------- program constants --------------------------- *)
ClipMax == 3000
TargetSize == 256
RgbBands == 3

BandOptions == <<"B04", "B03", "B02", "B08">>
ReferenceBand == "B04"

(* --------------------------- the environment --------------------------- *)
\* Scenes the catalog can return, and the band assets each one carries.
Catalog == {"S1", "S2", "S3"}

SceneAssets(s) ==
    CASE s = "S1" -> {"B04", "B03", "B02", "B08"}
      [] s = "S2" -> {"B04", "B03", "B02"}
      [] OTHER    -> {"B03", "B02", "B08"}

\* Georeferencing of a scene's rasters: north-up, square pixels.
OriginX == 0
OriginY == MaxCoord + MaxBuffer
PixelSize(s) == IF s = "S1" THEN 1 ELSE 4
RasterWidth(s) == IF s = "S1" THEN 4 ELSE 1
RasterHeight(s) == IF s = "S1" THEN 2 ELSE 1

\* src.transform of an asset of scene s (x = a*col + c, y = e*row + f).
AssetTransform(s) ==
    [a |-> PixelSize(s), c |-> OriginX, e |-> 0 - PixelSize(s), f |-> OriginY]

NoTransform == [a |-> 0, c |-> 0, e |-> 0, f |-> 0]

\* A raw sample of the pixel data stored in band b of scene s (uint16).
AssetValue(s, b) ==
    CASE b = "B04" -> IF s = "S1" THEN 1500 ELSE 0
      [] b = "B03" -> 3000
      [] b = "B02" -> 10000
      [] OTHER     -> 65535

AssetDtype == "uint16"

(* ------------------------------ helpers -------------------------------- *)
Min(a, b) == IF a <= b THEN a ELSE b
Max(a, b) == IF a >= b THEN a ELSE b

\* Python's seq[i], 0-based.
At(seq, i) == seq[i + 1]

Range(seq) == {seq[i] : i \in 1..Len(seq)}

\* Sequences without repetition over a set, of length at most n.
RECURSIVE DistinctSeqs(_, _)
DistinctSeqs(S, n) ==
    IF n = 0 THEN {<<>>}
    ELSE LET shorter == DistinctSeqs(S, n - 1)
         IN shorter \cup
            {Append(p[1], p[2]) : p \in {q \in shorter \X S : q[2] \notin Range(q[1])}}

(* ------------------------- external libraries -------------------------- *)
HasAssetAlways(scene, b) == TRUE

\* item.assets[b]: the key lookup succeeds, or raises KeyError
HasAsset(scene, b) == b \in SceneAssets(scene)

\* item.assets[band].href: an unsigned reference to one band asset of a scene.
BandHrefReference(scene, band) ==
    [scene |-> scene, band |-> ReferenceBand, signed |-> FALSE]

BandHref(scene, band) ==
    [scene |-> scene, band |-> band, signed |-> FALSE]

\* planetary_computer.sign
Sign(href) == [href EXCEPT !.signed = TRUE]

\* src.transform of an open dataset
SrcTransform(h) == AssetTransform(h.href.scene)

\* src.index(x, y): (row, col) of the pixel containing (x, y), rounding down.
Index(t, x, y) == <<(t.f - y) \div (0 - t.e), (x - t.c) \div t.a>>

\* Window.from_slices((r0, r1), (c0, c1))
FromSlices(rows, cols) ==
    [row_off |-> rows[1], col_off |-> cols[1],
     height |-> Max(rows[2] - rows[1], 0), width |-> Max(cols[2] - cols[1], 0)]

\* rasterio.windows.transform(window, transform): georeferencing of a crop.
WindowTransform(w, t) ==
    [t EXCEPT !.c = t.c + t.a * w.col_off, !.f = t.f + t.e * w.row_off]

\* bsrc.read(1, window=window, out_shape=(256, 256))
ReadPlane(h, w) ==
    [scene |-> h.href.scene, band |-> h.href.band, window |-> w,
     rows |-> TargetSize, cols |-> TargetSize,
     dtype |-> AssetDtype, px |-> AssetValue(h.href.scene, h.href.band)]

\* Storing a sample in a raster band of the given dtype.
CastTo(dtype, v) == IF dtype = "uint16" THEN v % 65536 ELSE v

(* ------------------------------ read_band ------------------------------ *)
ComputeWindowUnordered(t, box) ==
    LET start == Index(t, box[1], box[4])
        stop  == Index(t, box[3], box[2])
    IN FromSlices(<<start[1], stop[1]>>, <<start[2], stop[2]>>)

\* lines 61-64: the pixel window of bbox = (left, bottom, right, top)
ComputeWindow(t, box) ==
    LET start == Index(t, box[1], box[4])
        stop  == Index(t, box[3], box[2])
    IN FromSlices(<<Min(start[1], stop[1]), Max(start[1], stop[1])>>,
                  <<Min(start[2], stop[2]), Max(start[2], stop[2])>>)

\* What is left open once an exception has left the `with` blocks.
LeakOnError(hs) == hs

CloseOnError(hs) == {}

ReturnWindowTransform(h, w) == WindowTransform(w, SrcTransform(h))

\* line 73: the transform read_band returns
ReturnTransform(h, w) == SrcTransform(h)

(* ------------------------------ normalize ------------------------------ *)
Clip(v, lo, hi) == IF v < lo THEN lo ELSE IF v > hi THEN hi ELSE v

\* A float result is kept as an exact fraction num/den.
normalizeNoUpperClip(v) == [num |-> Max(v, 0), den |-> ClipMax]

normalize(v) == [num |-> Clip(v, 0, ClipMax), den |-> ClipMax]

AfterSearchNoStop(result) == "select"

\* lines 40-42: st.stop() on an empty result
AfterSearch(result) == IF result = <<>> THEN "stopped" ELSE "select"

(* ------------------------------- export -------------------------------- *)
NoFile ==
    [height |-> 0, width |-> 0, count |-> 0, dtype |-> "", crs |-> "",
     transform |-> NoTransform, bands |-> <<>>]

WriteGeoTiffReversed(stack, t) ==
    [height |-> stack[1].rows, width |-> stack[1].cols, count |-> Len(stack),
     dtype |-> stack[1].dtype, crs |-> "EPSG:4326", transform |-> t,
     bands |-> [j \in 1..Len(stack) |->
                  CastTo(stack[1].dtype, At(stack, Len(stack) - j).px)]]

\* lines 97-108: the profile, then dst.write(preview[..., i], i+1) for each i
WriteGeoTiff(stack, t) ==
    [height |-> stack[1].rows, width |-> stack[1].cols, count |-> Len(stack),
     dtype |-> stack[1].dtype, crs |-> "EPSG:4326", transform |-> t,
     bands |-> [j \in 1..Len(stack) |->
                  CastTo(stack[1].dtype, At(stack, j - 1).px)]]

(* ------------------------------- state --------------------------------- *)
VARIABLES
    pc,          \* position of the run in the script
    lat, lon, buffer, bbox,      \* lines 17-23
    items,       \* line 39: the search result
    warning,     \* line 41: the "no images" warning was shown
    sel_idx, item,               \* lines 46-47
    bands,       \* line 50: the multiselect's value, in selection order
    err,         \* the exception that ended the run, "" if none
    signLog,     \* hrefs passed to planetary_computer.sign, in call order
    openLog,     \* hrefs passed to rasterio.open for reading, in call order
    handles,     \* raster sources currently open
    window,      \* read_band's window: {} until line 64 has run
    band_i,      \* read_band's position in `bands`
    arrs,        \* read_band's list of planes read so far
    preview, transform,          \* line 76: what read_band returned
    img_rgb, displayed,          \* lines 84-86
    clicked,     \* line 95
    file,        \* the GeoTIFF written by lines 97-108
    downloaded   \* line 109: the download button was offered the file's bytes

vars == <<pc, lat, lon, buffer, bbox, items, warning, sel_idx, item, bands, err,
          signLog, openLog, handles, window, band_i, arrs, preview, transform,
          img_rgb, displayed, clicked, file, downloaded>>

inputVars == <<lat, lon, buffer, bbox>>
sceneVars == <<items, warning, sel_idx, item>>
ioVars == <<signLog, openLog, handles>>
loopVars == <<window, band_i, arrs>>
resultVars == <<preview, transform>>
uiVars == <<img_rgb, displayed, clicked, file, downloaded>>

BandSelections == DistinctSeqs(Range(BandOptions), Len(BandOptions))
SearchResults == DistinctSeqs(Catalog, MaxItems)
Coords == MaxBuffer..MaxCoord
Buffers == 1..MaxBuffer

Init ==
    /\ pc = "start"
    /\ lat = 0 /\ lon = 0 /\ buffer = 0 /\ bbox = <<0, 0, 0, 0>>
    /\ items = <<>> /\ warning = FALSE /\ sel_idx = 0 /\ item = ""
    /\ bands = <<>>
    /\ err = ""
    /\ signLog = <<>> /\ openLog = <<>> /\ handles = {}
    /\ window = {} /\ band_i = 0 /\ arrs = <<>>
    /\ preview = <<>> /\ transform = NoTransform
    /\ img_rgb = <<>> /\ displayed = FALSE
    /\ clicked = FALSE /\ file = NoFile /\ downloaded = FALSE

\* An uncaught exception ends the run.
Raise(kind) == pc' = "failed" /\ err' = kind

src == CHOOSE h \in handles : h.role = "src"
bsrc == CHOOSE h \in handles : h.role = "bsrc"
band == At(bands, band_i)

(* ------------------------------ the script ----------------------------- *)
\* lines 17-23: the widgets' values and the bounding box
ReadInputs ==
    /\ pc = "start"
    /\ \E la \in Coords, lo \in Coords, bu \in Buffers :
          /\ lat' = la /\ lon' = lo /\ buffer' = bu
          /\ bbox' = <<lo - bu, la - bu, lo + bu, la + bu>>
    /\ pc' = "search"
    /\ UNCHANGED <<sceneVars, bands, err, ioVars, loopVars, resultVars, uiVars>>

\* lines 30-42: the catalog search; an empty result warns and stops the run
Search ==
    /\ pc = "search"
    /\ \E result \in SearchResults :
          /\ items' = result
          /\ warning' = (result = <<>>)
          /\ pc' = AfterSearch(result)
    /\ UNCHANGED <<inputVars, sel_idx, item, bands, err, ioVars, loopVars,
                   resultVars, uiVars>>

\* lines 45-47
SelectImage ==
    /\ pc = "select"
    /\ \E i \in 0..(Len(items) - 1) :
          /\ sel_idx' = i
          /\ item' = At(items, i)
    /\ pc' = "bands"
    /\ UNCHANGED <<inputVars, items, warning, bands, err, ioVars, loopVars,
                   resultVars, uiVars>>

\* lines 50-54
SelectBands ==
    /\ pc = "bands"
    /\ \E b \in BandSelections : bands' = b
    /\ pc' = "load"
    /\ UNCHANGED <<inputVars, sceneVars, err, ioVars, loopVars, resultVars, uiVars>>

\* line 76: the argument item.assets["B04"].href, then the call
CallReadBand ==
    /\ pc = "load"
    /\ IF HasAsset(item, ReferenceBand)
         THEN pc' = "rb_sign" /\ err' = err
         ELSE Raise("KeyError")
    /\ UNCHANGED <<inputVars, sceneVars, bands, ioVars, loopVars, resultVars, uiVars>>

\* line 58
RbSign ==
    /\ pc = "rb_sign"
    /\ \/ /\ signLog' = Append(signLog, BandHref(item, ReferenceBand))
          /\ pc' = "rb_open" /\ err' = err
       \/ /\ Raise("SignError")
          /\ signLog' = signLog
    /\ UNCHANGED <<inputVars, sceneVars, bands, openLog, handles, loopVars,
                   resultVars, uiVars>>

\* line 59
RbOpen ==
    /\ pc = "rb_open"
    /\ LET signed_href == Sign(BandHref(item, ReferenceBand))
       IN \/ /\ openLog' = Append(openLog, signed_href)
             /\ handles' = handles \cup {[role |-> "src", href |-> signed_href]}
             /\ pc' = "rb_window" /\ err' = err
          \/ /\ Raise("RasterioIOError")
             /\ UNCHANGED <<openLog, handles>>
    /\ UNCHANGED <<inputVars, sceneVars, bands, signLog, loopVars, resultVars, uiVars>>

\* lines 61-65
RbWindow ==
    /\ pc = "rb_window"
    /\ window' = {ComputeWindow(SrcTransform(src), bbox)}
    /\ arrs' = <<>>
    /\ band_i' = 0
    /\ pc' = "rb_band"
    /\ UNCHANGED <<inputVars, sceneVars, bands, err, ioVars, resultVars, uiVars>>

\* lines 66-68: the next band's asset is looked up and signed
RbBandSign ==
    /\ pc = "rb_band"
    /\ band_i < Len(bands)
    /\ IF ~HasAsset(item, band)
         THEN /\ Raise("KeyError")
              /\ handles' = CloseOnError(handles)
              /\ signLog' = signLog
         ELSE \/ /\ signLog' = Append(signLog, BandHref(item, band))
                 /\ pc' = "rb_band_open" /\ err' = err
                 /\ handles' = handles
              \/ /\ Raise("SignError")
                 /\ handles' = CloseOnError(handles)
                 /\ signLog' = signLog
    /\ UNCHANGED <<inputVars, sceneVars, bands, openLog, loopVars, resultVars, uiVars>>

\* line 69
RbBandOpen ==
    /\ pc = "rb_band_open"
    /\ LET asset_band_href == Sign(BandHref(item, band))
       IN \/ /\ openLog' = Append(openLog, asset_band_href)
             /\ handles' = handles \cup {[role |-> "bsrc", href |-> asset_band_href]}
             /\ pc' = "rb_band_read" /\ err' = err
          \/ /\ Raise("RasterioIOError")
             /\ handles' = CloseOnError(handles)
             /\ openLog' = openLog
    /\ UNCHANGED <<inputVars, sceneVars, bands, signLog, loopVars, resultVars, uiVars>>

\* lines 70-71, and the end of the inner `with`
RbBandRead ==
    /\ pc = "rb_band_read"
    /\ \/ /\ arrs' = Append(arrs, ReadPlane(bsrc, CHOOSE w \in window : TRUE))
          /\ handles' = handles \ {bsrc}
          /\ band_i' = band_i + 1
          /\ pc' = "rb_band" /\ err' = err
       \/ /\ Raise("RasterioIOError")
          /\ handles' = CloseOnError(handles)
          /\ UNCHANGED <<arrs, band_i>>
    /\ UNCHANGED <<inputVars, sceneVars, bands, signLog, openLog, window,
                   resultVars, uiVars>>

\* lines 72-73 and 76: np.stack, the return, and the end of the outer `with`
RbStack ==
    /\ pc = "rb_band"
    /\ band_i = Len(bands)
    /\ IF arrs = <<>>
         THEN /\ Raise("ValueError")
              /\ handles' = CloseOnError(handles)
              /\ UNCHANGED resultVars
         ELSE /\ preview' = arrs
              /\ transform' = ReturnTransform(src, CHOOSE w \in window : TRUE)
              /\ handles' = handles \ {src}
              /\ pc' = "display" /\ err' = err
    /\ UNCHANGED <<inputVars, sceneVars, bands, signLog, openLog, loopVars, uiVars>>

\* lines 84-92: preview[..., :3] or preview[..., 0], normalized and shown
Display ==
    /\ pc = "display"
    /\ img_rgb' = IF Len(preview) >= RgbBands
                    THEN [i \in 1..RgbBands |-> normalize(At(preview, i - 1).px)]
                    ELSE <<normalize(At(preview, 0).px)>>
    /\ displayed' = TRUE
    /\ pc' = "button"
    /\ UNCHANGED <<inputVars, sceneVars, bands, err, ioVars, loopVars, resultVars,
                   clicked, file, downloaded>>

\* line 95
Button ==
    /\ pc = "button"
    /\ \E c \in BOOLEAN :
          /\ clicked' = c
          /\ pc' = IF c THEN "export" ELSE "done"
    /\ UNCHANGED <<inputVars, sceneVars, bands, err, ioVars, loopVars, resultVars,
                   img_rgb, displayed, file, downloaded>>

\* lines 96-114
Export ==
    /\ pc = "export"
    /\ \/ /\ file' = WriteGeoTiff(preview, transform)
          /\ downloaded' = TRUE
          /\ pc' = "done" /\ err' = err
       \/ /\ Raise("RasterioIOError")
          /\ UNCHANGED <<file, downloaded>>
    /\ UNCHANGED <<inputVars, sceneVars, bands, ioVars, loopVars, resultVars,
                   img_rgb, displayed, clicked>>

Next ==
    \/ ReadInputs \/ Search \/ SelectImage \/ SelectBands \/ CallReadBand
    \/ RbSign \/ RbOpen \/ RbWindow \/ RbBandSign \/ RbBandOpen \/ RbBandRead
    \/ RbStack \/ Display \/ Button \/ Export

Spec == Init /\ [][Next]_vars

(* --------------- normalize on arbitrary numeric input ------------------ *)
NormInputs ==
    ((0 - Spread)..Spread) \cup ((ClipMax - Spread)..(ClipMax + Spread))
      \cup {1500, 65535, 1000000}

ArbitraryPlane(i, v) ==
    [scene |-> "S1", band |-> BandOptions[i], window |-> FromSlices(<<0, 1>>, <<0, 1>>),
     rows |-> TargetSize, cols |-> TargetSize, dtype |-> "int32", px |-> v]

\* The run stands before line 84 with an arbitrary one- or three-band stack.
InitNormalize ==
    /\ pc = "display"
    /\ lat = 0 /\ lon = 0 /\ buffer = 0 /\ bbox = <<0, 0, 0, 0>>
    /\ items = <<"S1">> /\ warning = FALSE /\ sel_idx = 0 /\ item = "S1"
    /\ \E n \in {1, RgbBands} :
          /\ bands = [i \in 1..n |-> BandOptions[i]]
          /\ preview \in [1..n -> {ArbitraryPlane(i, v) : i \in 1..n, v \in NormInputs}]
          /\ \A i \in 1..n : preview[i].band = BandOptions[i]
    /\ err = ""
    /\ signLog = <<>> /\ openLog = <<>> /\ handles = {}
    /\ window = {} /\ band_i = 0 /\ arrs = <<>>
    /\ transform = AssetTransform("S1")
    /\ img_rgb = <<>> /\ displayed = FALSE
    /\ clicked = FALSE /\ file = NoFile /\ downloaded = FALSE

NextNormalize == Display

SpecNormalize == InitNormalize /\ [][NextNormalize]_vars

(* ------------------------------- claims -------------------------------- *)
ReadBandReturned == preview # <<>>
Exited == pc \in {"stopped", "failed", "display", "button", "export", "done"}
BandsChosen == pc \notin {"start", "search", "select", "bands", "stopped"}
MissingBands == {i \in 0..(Len(bands) - 1) : At(bands, i) \notin SceneAssets(item)}
FirstMissing == CHOOSE i \in MissingBands : \A j \in MissingBands : i <= j
WindowIsEmpty(w) == w.width = 0 \/ w.height = 0
WindowOutside(w) ==
    w.col_off >= RasterWidth(item) \/ w.row_off >= RasterHeight(item)

\* C1: the array read_band returns has one plane per entry of bands, and plane k
\* holds the data read from the asset of bands[k] of the selected scene.
C1_BandOrder ==
    ReadBandReturned =>
        /\ Len(preview) = Len(bands)
        /\ \A k \in 0..(Len(bands) - 1) :
              /\ At(preview, k).band = At(bands, k)
              /\ At(preview, k).scene = item
              /\ At(preview, k).px = AssetValue(item, At(bands, k))

C1_Witness ==
    ReadBandReturned /\ bands = <<"B08", "B04">> /\ At(preview, 0).band = "B08"

\* C2: every bounding box with west < east and south < north gives a pixel
\* window of strictly positive width and height.
C2_PositiveWindow ==
    \A w \in window :
        (bbox[1] < bbox[3] /\ bbox[2] < bbox[4]) => (w.width > 0 /\ w.height > 0)

\* C3: converting the two diagonal corners in the other order gives the same
\* window as the one read_band computed.
C3_CornerOrder ==
    \A w \in window :
        w = ComputeWindow(AssetTransform(item), <<bbox[3], bbox[4], bbox[1], bbox[2]>>)

C3_Witness ==
    \E w \in window :
        /\ w.width > 0 /\ w.height > 0
        /\ Index(AssetTransform(item), bbox[1], bbox[4])
              # Index(AssetTransform(item), bbox[3], bbox[2])

\* C4: normalize never fails and maps every value v to clip(v, 0, 3000)/3000:
\* within [0,1], 1 from 3000 up, 0 from 0 down, monotone non-decreasing.
C4_NormalizeRange ==
    /\ err = ""
    /\ displayed =>
         \A i \in 1..Len(img_rgb) :
            LET v == preview[i].px
                o == img_rgb[i]
            IN /\ o.den > 0 /\ 0 <= o.num /\ o.num <= o.den
               /\ (v >= ClipMax => o.num = o.den)
               /\ (v <= 0 => o.num = 0)
               /\ (0 < v /\ v < ClipMax => o.num * ClipMax = v * o.den)
               /\ \A j \in 1..Len(img_rgb) :
                     preview[j].px <= v =>
                        img_rgb[j].num * o.den <= o.num * img_rgb[j].den

C4_Witness ==
    /\ displayed
    /\ \E i, j, k \in 1..Len(img_rgb) :
          /\ preview[i].px < 0
          /\ preview[j].px > 2 * ClipMax
          /\ 0 < preview[k].px /\ preview[k].px < ClipMax

\* C5: the written GeoTIFF has the stack's height, width and band count, band
\* i+1 holds plane i of the raw stack, with the stack's dtype and the
\* transform given to the export.
C5_RoundTrip ==
    file # NoFile =>
        /\ file.height = At(preview, 0).rows
        /\ file.width = At(preview, 0).cols
        /\ file.count = Len(preview)
        /\ DOMAIN file.bands = 1..Len(preview)
        /\ \A i \in 0..(Len(preview) - 1) : file.bands[i + 1] = At(preview, i).px
        /\ file.dtype = At(preview, 0).dtype
        /\ file.transform = transform

C5_Witness ==
    /\ file # NoFile /\ downloaded
    /\ Len(preview) >= 2
    /\ At(preview, 0).px # At(preview, 1).px
    /\ img_rgb[1].num # At(preview, 0).px

\* C6: with a band in bands that the scene's assets lack, read_band returns no
\* array, nothing is displayed and nothing is exported; the run fails with
\* KeyError where the lookup of the first missing band (or of B04 at the
\* call) is reached, any other failure being an earlier sign, open or read.
C6_MissingBand ==
    (BandsChosen /\ MissingBands # {}) =>
        /\ preview = <<>> /\ img_rgb = <<>> /\ ~displayed
        /\ file = NoFile /\ ~downloaded
        /\ pc \notin {"display", "button", "export", "done"}
        /\ Len(arrs) <= FirstMissing
        /\ band_i <= FirstMissing
        /\ pc = "failed" =>
              /\ handles = {}
              /\ (~HasAsset(item, ReferenceBand) => err = "KeyError")
              /\ (window # {} /\ band_i = FirstMissing => err = "KeyError")
              /\ (err # "KeyError" =>
                    err \in {"SignError", "RasterioIOError"}
                      /\ (window = {} \/ band_i < FirstMissing))

C6_Witness ==
    /\ pc = "failed" /\ err = "KeyError"
    /\ HasAsset(item, ReferenceBand)
    /\ MissingBands # {} /\ FirstMissing = 1
    /\ Len(arrs) = 1

\* C7: a window of zero width or height, or one outside the asset, makes
\* read_band fail with EmptyWindowError before any band is signed, opened or
\* read, and no array is returned.
C7_EmptyWindowError ==
    \A w \in window :
        (WindowIsEmpty(w) \/ WindowOutside(w)) =>
            /\ Len(signLog) <= 1 /\ Len(openLog) <= 1
            /\ arrs = <<>> /\ preview = <<>>
            /\ (pc = "failed" => err = "EmptyWindowError")

\* C8: an empty search result shows the warning and halts the run: nothing is
\* signed, opened, read, normalized, displayed or written.
C8_NoResultsHalts ==
    (pc \notin {"start", "search"} /\ items = <<>>) =>
        /\ pc = "stopped" /\ warning /\ err = ""
        /\ ~ENABLED Next
        /\ signLog = <<>> /\ openLog = <<>> /\ handles = {}
        /\ window = {} /\ arrs = <<>> /\ preview = <<>>
        /\ img_rgb = <<>> /\ ~displayed
        /\ file = NoFile /\ ~downloaded

C8_Witness == pc = "stopped" /\ warning /\ items = <<>>

\* C9: the transform read_band returns is the reference asset's own transform,
\* a function of the scene alone (whatever bbox and bands), and the export
\* writes that transform.
C9_FullAssetTransform ==
    ReadBandReturned =>
        /\ transform = AssetTransform(item)
        /\ transform.a # 0
        /\ (file # NoFile => file.transform = AssetTransform(item))

C9_Witness ==
    /\ file # NoFile
    /\ \E w \in window :
          /\ w.width > 0 /\ w.height > 0
          /\ WindowTransform(w, AssetTransform(item)) # transform

\* C10: every raster source is opened on the href signed just before it; a
\* call that returns has opened one source per band plus the reference; and
\* once read_band is left, normally or by an exception, no source is open.
C10_Handles ==
    /\ Len(openLog) <= Len(signLog) /\ Len(signLog) <= Len(openLog) + 1
    /\ \A i \in 1..Len(openLog) : openLog[i] = Sign(signLog[i])
    /\ \A i \in 1..Len(signLog) :
          signLog[i] = BandHref(item, IF i = 1 THEN ReferenceBand ELSE At(bands, i - 2))
    /\ \A h \in handles : \E i \in 1..Len(openLog) : openLog[i] = h.href
    /\ Cardinality(handles) <= 2
    /\ ReadBandReturned =>
          Len(openLog) = Len(bands) + 1 /\ Len(signLog) = Len(bands) + 1
    /\ Exited => handles = {}

C10_Witness ==
    /\ pc = "failed" /\ err = "RasterioIOError"
    /\ Len(openLog) = 3 /\ Len(signLog) = 3 /\ Len(arrs) = 1

====
